---- MODULE Spec2Model ----
(***************************************************************************)
(* A model of src/posix.rs of rust-subprocess: the PATH splitter           *)
(* (SplitPath), the staged exec plan (CVec, FinishExec, stage_exec), the   *)
(* wait-status decoder (waitpid, decode_exit_status), the bounded poll     *)
(* (poll) and the standard-stream handle (make_standard_stream).           *)
(*                                                                         *)
(* Byte strings are sequences of one-character strings; the zero byte is   *)
(* NUL.  Offsets into byte strings are 0-based as in the source, so byte i *)
(* of the source is bytes[i + 1] here.                                     *)
(***************************************************************************)
EXTENDS Integers, Sequences, FiniteSets, TLC

VARIABLES
    \* ---- the PATH splitter run on its own (SpecSplit)
    sp_segs,      \* input: the non-empty colon-free segments the path is built from
    sp_pads,      \* input: the extra colons before, between and after them
    sp,           \* the SplitPath value: [path, last, current]
    sp_out,       \* the pieces next() has returned so far
    sp_done,      \* next() has returned None
    \* ---- staging and finish (Spec)
    PATH,         \* the process environment's PATH variable (an Option)
    cmd, args, env, \* the arguments of stage_exec
    pc,           \* "start", "failed", "staged", "search", "execed"
    stage_err,    \* the error stage_exec returned (an Option)
    env_at_stage, \* history: PATH as it was when stage_exec ran
    exec,         \* the FinishExec value: [cmd, argvec, envvec, search_path]
    exe_buf,      \* FinishExec.exe_buf, a Vec<u8>: [data, cap]
    cap0,         \* history: the capacity FinishExec::new reserved
    dirs,         \* the SplitPath iterator of the loop in finish()
    errno,        \* the thread's errno
    attempts,     \* history: the exec attempts of the current finish() call
    ret,          \* what the last finish() call returned (an Option of errno)
    ncalls,       \* number of finish() calls made
    nsetenv,      \* number of changes made to PATH after staging
    path_reads,   \* history: number of env::var_os("PATH") calls made
    \* ---- waitpid (SpecWait)
    w_pc,         \* "call", "done"
    w_status,     \* input: the status word the kernel reports for the child
    w_ret,        \* what waitpid returned (an Option of a Result)
    \* ---- poll (SpecPoll)
    nfds,         \* input: the length of fds
    requested,    \* input: the timeout argument (an Option of a duration)
    now,          \* the monotonic clock (Instant::now())
    deadline,     \* poll's `deadline` (an Option of an instant)
    timeout,      \* poll's `timeout`, reassigned by the loop
    p_pc,         \* "idle", "loop", "done"
    p_ret,        \* what poll returned (an Option of a Result)
    p_log,        \* history: the libc::poll calls made, with their results
    \* ---- make_standard_stream (SpecStream)
    wrappers,     \* the Rc<File> allocations made: [which, strong, live]
    fd_open       \* which of the standard descriptors are open

splitVars == <<sp_segs, sp_pads, sp, sp_out, sp_done>>
execVars  == <<PATH, cmd, args, env, pc, stage_err, env_at_stage, exec, exe_buf,
               cap0, dirs, errno, attempts, ret, ncalls, nsetenv, path_reads>>
waitVars  == <<w_pc, w_status, w_ret>>
pollVars  == <<nfds, requested, now, deadline, timeout, p_pc, p_ret, p_log>>
streamVars == <<wrappers, fd_open>>
vars      == <<splitVars, execVars, waitVars, pollVars, streamVars>>

----------------------------------------------------------------------------
(* Bounds of the model. *)
MaxSegs == 2        \* segments of a generated path
MaxSegLen == 2      \* bytes of a generated segment
MaxPad == 1         \* extra colons at each position of a generated path
MaxFinishCalls == 2 \* calls of the staged callable
MaxSetEnv == 1      \* changes of PATH after staging
MaxStatus == 65535  \* largest raw wait status tried
MaxNegStatus == 300 \* raw wait statuses down to -MaxNegStatus are tried
TicksPerMs == 2     \* clock ticks per millisecond (the clock is finer than 1 ms)
MaxFds == 1         \* descriptors polled
MaxWrappers == 2    \* calls of make_standard_stream
MaxClones == 2      \* clones callers make of one returned handle

----------------------------------------------------------------------------
(* Bytes, options, results. *)
NUL == "NUL"
Colon == ":"
Slash == "/"

None == <<>>
Some(x) == <<x>>
IsSome(o) == o # <<>>
Unwrap(o) == o[1]

Ok(v) == [ok |-> TRUE, val |-> v, err |-> "0"]
Err(e) == [ok |-> FALSE, val |-> <<>>, err |-> e]

SeqMax(s) ==
    IF s = <<>> THEN None
    ELSE Some(CHOOSE m \in {s[i] : i \in 1..Len(s)} :
                  \A i \in 1..Len(s) : s[i] <= m)
UnwrapOr(o, d) == IF IsSome(o) THEN Unwrap(o) ELSE d
Max2(a, b) == IF a >= b THEN a ELSE b

Contains(bytes, b) == \E i \in 1..Len(bytes) : bytes[i] = b

----------------------------------------------------------------------------
(* SplitPath: src/posix.rs 89-129. *)

split_path(path) == [path |-> path, last |-> 0, current |-> 0]

\* A buggy scan: an empty piece does not move `last`.
RECURSIVE ScanStaleLast(_, _, _)
ScanStaleLast(bytes, last, i) ==
    IF i < Len(bytes)
    THEN IF bytes[i + 1] = Colon
         THEN LET piece == SubSeq(bytes, last + 1, i) IN
              IF piece # <<>>
              THEN [item |-> Some(piece), last |-> i + 1, current |-> i + 1]
              ELSE ScanStaleLast(bytes, last, i + 1)
         ELSE ScanStaleLast(bytes, last, i + 1)
    ELSE IF last # Len(bytes)
         THEN [item |-> Some(SubSeq(bytes, last + 1, Len(bytes))),
               last |-> Len(bytes), current |-> Len(bytes)]
         ELSE [item |-> None, last |-> last, current |-> Len(bytes)]

\* A buggy scan: the piece after the last colon is dropped.
RECURSIVE ScanNoTail(_, _, _)
ScanNoTail(bytes, last, i) ==
    IF i < Len(bytes)
    THEN IF bytes[i + 1] = Colon
         THEN LET piece == SubSeq(bytes, last + 1, i) IN
              IF piece # <<>>
              THEN [item |-> Some(piece), last |-> i + 1, current |-> i + 1]
              ELSE ScanNoTail(bytes, i + 1, i + 1)
         ELSE ScanNoTail(bytes, last, i + 1)
    ELSE [item |-> None, last |-> last, current |-> Len(bytes)]

\* The body of SplitPath::next from loop index i on: the for loop over
\* i in current..len, then the code after it.  Returns the item and the
\* iterator's new `last` and `current`.
RECURSIVE Scan(_, _, _)
Scan(bytes, last, i) ==
    IF i < Len(bytes)
    THEN IF bytes[i + 1] = Colon
         THEN LET piece == SubSeq(bytes, last + 1, i) IN
              IF piece # <<>>
              THEN [item |-> Some(piece), last |-> i + 1, current |-> i + 1]
              ELSE Scan(bytes, i + 1, i + 1)
         ELSE Scan(bytes, last, i + 1)
    ELSE IF last # Len(bytes)
         THEN [item |-> Some(SubSeq(bytes, last + 1, Len(bytes))),
               last |-> Len(bytes), current |-> Len(bytes)]
         ELSE [item |-> None, last |-> last, current |-> Len(bytes)]

\* SplitPath::next on iterator `it`: the item and the iterator afterwards.
SplitNext(it) ==
    LET r == Scan(it.path, it.last, it.current) IN
    [item |-> r.item,
     it   |-> [path |-> it.path, last |-> r.last, current |-> r.current]]

\* The whole iteration, as `for dir in split_path(..)` and `.map(..)` run it.
RECURSIVE Drain(_)
Drain(it) ==
    LET r == SplitNext(it) IN
    IF IsSome(r.item) THEN <<Unwrap(r.item)>> \o Drain(r.it) ELSE <<>>

----------------------------------------------------------------------------
(* The splitter on its own: SpecSplit. *)

SegBytes == {"a", Slash}

RECURSIVE SeqsUpTo(_, _)
SeqsUpTo(S, n) ==
    IF n = 0 THEN {<<>>}
    ELSE LET shorter == SeqsUpTo(S, n - 1) IN
         shorter \cup {Append(s, x) : s \in {t \in shorter : Len(t) = n - 1}, x \in S}

Segments == SeqsUpTo(SegBytes, MaxSegLen) \ {<<>>}

Colons(n) == [i \in 1..n |-> Colon]

\* The segments joined with single colons, plus pads[1] leading colons and
\* pads[i + 1] more colons after segment i.
RECURSIVE Decorate(_, _)
Decorate(segs, pads) ==
    IF segs = <<>> THEN Colons(pads[1])
    ELSE LET n == Len(segs) IN
         Decorate(SubSeq(segs, 1, n - 1), SubSeq(pads, 1, n))
           \o (IF n > 1 THEN <<Colon>> ELSE <<>>)
           \o segs[n] \o Colons(pads[n + 1])

InitUnusedSplit ==
    /\ sp_segs = <<>> /\ sp_pads = <<>> /\ sp = split_path(<<>>)
    /\ sp_out = <<>> /\ sp_done = FALSE
InitUnusedExec ==
    /\ PATH = None /\ cmd = <<>> /\ args = <<>> /\ env = None /\ pc = "off"
    /\ stage_err = None /\ env_at_stage = None /\ exec = <<>>
    /\ exe_buf = [data |-> <<>>, cap |-> 0] /\ cap0 = 0
    /\ dirs = split_path(<<>>) /\ errno = "0" /\ attempts = <<>> /\ ret = None
    /\ ncalls = 0 /\ nsetenv = 0 /\ path_reads = 0
InitUnusedWait ==
    /\ w_pc = "off" /\ w_status = 0 /\ w_ret = None
InitUnusedPoll ==
    /\ nfds = 0 /\ requested = None /\ now = [hi |-> 0, lo |-> 0, tk |-> 0]
    /\ deadline = None /\ timeout = None
    /\ p_pc = "off" /\ p_ret = None /\ p_log = <<>>
InitUnusedStream ==
    /\ wrappers = <<>> /\ fd_open = <<>>

InitSplit ==
    /\ sp_segs \in SeqsUpTo(Segments, MaxSegs)
    /\ sp_pads \in [1..(Len(sp_segs) + 1) -> 0..MaxPad]
    /\ sp = split_path(Decorate(sp_segs, sp_pads))
    /\ sp_out = <<>>
    /\ sp_done = FALSE
    /\ InitUnusedExec /\ InitUnusedWait /\ InitUnusedPoll /\ InitUnusedStream

\* One call of next() by the consumer of the iterator.
SplitYield ==
    /\ ~sp_done
    /\ IsSome(SplitNext(sp).item)
    /\ sp' = SplitNext(sp).it
    /\ sp_out' = Append(sp_out, Unwrap(SplitNext(sp).item))
    /\ UNCHANGED <<sp_segs, sp_pads, sp_done, execVars, waitVars, pollVars, streamVars>>

SplitEnd ==
    /\ ~sp_done
    /\ ~IsSome(SplitNext(sp).item)
    /\ sp' = SplitNext(sp).it
    /\ sp_done' = TRUE
    /\ UNCHANGED <<sp_segs, sp_pads, sp_out, execVars, waitVars, pollVars, streamVars>>

NextSplit == SplitYield \/ SplitEnd

SpecSplit == InitSplit /\ [][NextSplit]_vars

----------------------------------------------------------------------------
(* CString and CVec: src/posix.rs 54-87. *)

NullPtr == 0

\* CString::new(s.as_bytes()) mapped to EINVAL: the bytes with their
\* terminating NUL, or the error when a byte of s is NUL.
os_to_cstring(s) ==
    IF Contains(s, NUL) THEN Err("EINVAL") ELSE Ok(s \o <<NUL>>)

\* A buggy CVec::new: the pointer table is not null-terminated.
CVec_new_no_null(slice) ==
    IF \E i \in 1..Len(slice) : ~os_to_cstring(slice[i]).ok
    THEN Err("EINVAL")
    ELSE Ok([strings |-> [i \in 1..Len(slice) |-> os_to_cstring(slice[i]).val],
             ptrs    |-> [i \in 1..Len(slice) |-> i]])

\* CVec::new: the error of the first string that fails, else the strings and
\* the pointer table (pointer i is the address of strings[i]).
CVec_new(slice) ==
    IF \E i \in 1..Len(slice) : ~os_to_cstring(slice[i]).ok
    THEN Err("EINVAL")
    ELSE Ok([strings |-> [i \in 1..Len(slice) |-> os_to_cstring(slice[i]).val],
             ptrs    |-> [i \in 1..Len(slice) |-> i] \o <<NullPtr>>])

----------------------------------------------------------------------------
(* Vec<u8>, as far as exe_buf uses it. *)

Vec_with_capacity(n) == [data |-> <<>>, cap |-> n]

\* Vec::truncate(0) keeps the allocation.
Vec_truncate0(v) == [data |-> <<>>, cap |-> v.cap]

\* Vec::extend_from_slice and Vec::push: the buffer grows (is reallocated) only
\* when the new length exceeds the capacity, to max(2 * cap, needed, 8).
Vec_extend(v, slice) ==
    LET need == Len(v.data) + Len(slice) IN
    [data |-> v.data \o slice,
     cap  |-> IF need > v.cap THEN Max2(Max2(2 * v.cap, need), 8) ELSE v.cap]

RECURSIVE Vec_extend_all(_, _)
Vec_extend_all(v, slices) ==
    IF slices = <<>> THEN v
    ELSE Vec_extend_all(Vec_extend(v, Head(slices)), Tail(slices))

\* The C string a pointer to `bytes` denotes: the bytes before the first NUL.
CStr(bytes) ==
    LET k == CHOOSE i \in 1..Len(bytes) :
                 bytes[i] = NUL /\ \A j \in 1..(i - 1) : bytes[j] # NUL
    IN SubSeq(bytes, 1, k - 1)

----------------------------------------------------------------------------
(* FinishExec and stage_exec: src/posix.rs 160-271. *)

\* A buggy size: no room for the '/' between directory and command.
MaxExeLenNoSlash(c, search_path) ==
    Len(c) + 1
      + (IF IsSome(search_path)
         THEN UnwrapOr(SeqMax([i \in 1..Len(Drain(split_path(Unwrap(search_path))))
                                 |-> Len(Drain(split_path(Unwrap(search_path)))[i])]), 0)
         ELSE 0)

\* max_exe_len of FinishExec::new.
MaxExeLen(c, search_path) ==
    Len(c) + 1
      + (IF IsSome(search_path)
         THEN 1 + UnwrapOr(SeqMax([i \in 1..Len(Drain(split_path(Unwrap(search_path))))
                                     |-> Len(Drain(split_path(Unwrap(search_path)))[i])]), 0)
         ELSE 0)

\* FinishExec::new: the plan and its scratch buffer.
FinishExec_new(c, argvec, envvec, search_path) ==
    [plan    |-> [cmd |-> c, argvec |-> argvec, envvec |-> envvec,
                  search_path |-> search_path],
     exe_buf |-> Vec_with_capacity(MaxExeLen(c, search_path))]

\* A buggy set_exe: the previous candidate is not truncated away.
set_exe_no_truncate(buf, byte_slices) ==
    Vec_extend(Vec_extend_all(buf, byte_slices), <<NUL>>)

\* FinishExec::set_exe.
set_exe(buf, byte_slices) ==
    Vec_extend(Vec_extend_all(Vec_truncate0(buf), byte_slices), <<NUL>>)

\* A buggy resolution: an empty PATH is kept as a search path.
ResolveKeepsEmpty(c, path_var) ==
    IF ~Contains(c, Slash) THEN path_var ELSE None

\* The search path stage_exec resolves; path_var is env::var_os("PATH").
ResolveSearchPath(c, path_var) ==
    IF ~Contains(c, Slash)
    THEN IF IsSome(path_var) /\ Len(Unwrap(path_var)) # 0 THEN path_var ELSE None
    ELSE None

\* How many times stage_exec calls env::var_os("PATH"): not at all when a
\* CVec::new fails first (the `?` returns) or when the command holds a '/'.
PathReads(c, a, e) ==
    IF ~CVec_new(a).ok \/ (IsSome(e) /\ ~CVec_new(Unwrap(e)).ok) THEN 0
    ELSE IF ~Contains(c, Slash) THEN 1 ELSE 0

\* stage_exec: Err(EINVAL) from either CVec::new, else the staged FinishExec.
stage_exec(c, a, e, path_var) ==
    LET argvec == CVec_new(a)
        envres == IF IsSome(e) THEN CVec_new(Unwrap(e)) ELSE Ok(<<>>)
    IN  IF ~argvec.ok THEN Err(argvec.err)
        ELSE IF ~envres.ok THEN Err(envres.err)
        ELSE Ok(FinishExec_new(c, argvec.val,
                               IF IsSome(e) THEN Some(envres.val) ELSE None,
                               ResolveSearchPath(c, path_var)))

\* A buggy exec: the staged environment is ignored.
ExecAttemptAlwaysExecv(plan, buf, res) ==
    [buf  |-> buf.data,
     exe  |-> CStr(buf.data),
     call |-> "execv",
     argv |-> plan.argvec,
     envp |-> None,
     res  |-> res]

\* What FinishExec::exec hands to the kernel, with the kernel's answer `res`
\* ("ok": the process image is replaced; else the errno of the failure).
\* envp is the CVec passed as the third argument of execve, None for execv.
ExecAttempt(plan, buf, res) ==
    [buf  |-> buf.data,
     exe  |-> CStr(buf.data),
     call |-> IF IsSome(plan.envvec) THEN "execve" ELSE "execv",
     argv |-> plan.argvec,
     envp |-> IF IsSome(plan.envvec) THEN Some(Unwrap(plan.envvec)) ELSE None,
     res  |-> res]

ExecErrnos == {"ENOENT", "EACCES"}
ExecOutcomes == {"ok"} \cup ExecErrnos

CmdChoices  == {<<"c">>, <<"c", "c", "c">>, <<Slash, "c">>, <<"c", NUL, "x">>}
ArgsChoices == {<<>>, << <<"c">> >>, << <<"c">>, <<"x", "y">> >>,
                << <<"c">>, <<"x", NUL>> >>}
EnvChoices  == {None, Some(<<>>), Some(<< <<"k", "=", "v">> >>),
                Some(<< <<"k", NUL, "v">> >>)}
PathChoices ==
    {None} \cup
    {Some(p) : p \in {<<>>,
                      <<Colon>>,
                      <<"a">>,
                      <<"a", "a", Colon, "a">>,
                      <<Colon, "a", Colon, Colon, Slash, Colon>>,
                      <<"a", Colon, Slash, "a", "a", Colon, "a">>}}
StaleErrnos == {"0", "EINTR"}

InitExec ==
    /\ PATH \in PathChoices
    /\ cmd \in CmdChoices
    /\ args \in ArgsChoices
    /\ env \in EnvChoices
    /\ errno \in StaleErrnos
    /\ pc = "start"
    /\ stage_err = None /\ env_at_stage = None /\ exec = <<>>
    /\ exe_buf = Vec_with_capacity(0) /\ cap0 = 0
    /\ dirs = split_path(<<>>) /\ attempts = <<>> /\ ret = None
    /\ ncalls = 0 /\ nsetenv = 0 /\ path_reads = 0
    /\ InitUnusedSplit /\ InitUnusedWait /\ InitUnusedPoll /\ InitUnusedStream

\* The caller stages the exec: the whole of stage_exec.
StageExec ==
    /\ pc = "start"
    /\ LET r == stage_exec(cmd, args, env, PATH) IN
       \/ /\ ~r.ok
          /\ pc' = "failed"
          /\ stage_err' = Some(r.err)
          /\ UNCHANGED <<exec, exe_buf, cap0>>
       \/ /\ r.ok
          /\ pc' = "staged"
          /\ exec' = r.val.plan
          /\ exe_buf' = r.val.exe_buf
          /\ cap0' = r.val.exe_buf.cap
          /\ UNCHANGED stage_err
    /\ env_at_stage' = PATH
    /\ path_reads' = path_reads + PathReads(cmd, args, env)
    /\ UNCHANGED <<PATH, cmd, args, env, dirs, errno, attempts, ret, ncalls, nsetenv,
                   splitVars, waitVars, pollVars, streamVars>>

\* A buggy finish(): the search iterates over PATH as it is now.
FinishBeginRereadsPath ==
    /\ pc = "staged"
    /\ ncalls < MaxFinishCalls
    /\ IsSome(exec.search_path)
    /\ dirs' = split_path(UnwrapOr(PATH, <<>>))
    /\ path_reads' = path_reads + 1
    /\ pc' = "search"
    /\ attempts' = <<>>
    /\ ret' = None
    /\ ncalls' = ncalls + 1
    /\ UNCHANGED <<PATH, cmd, args, env, stage_err, env_at_stage, exec, exe_buf, cap0,
                   errno, nsetenv, splitVars, waitVars, pollVars, streamVars>>

\* finish() is entered with a search path: the loop's iterator is created.
FinishBegin ==
    /\ pc = "staged"
    /\ ncalls < MaxFinishCalls
    /\ IsSome(exec.search_path)
    /\ dirs' = split_path(Unwrap(exec.search_path))
    /\ pc' = "search"
    /\ attempts' = <<>>
    /\ ret' = None
    /\ ncalls' = ncalls + 1
    /\ UNCHANGED <<PATH, cmd, args, env, stage_err, env_at_stage, exec, exe_buf, cap0,
                   errno, nsetenv, path_reads, splitVars, waitVars, pollVars, streamVars>>

\* A buggy iteration: a failure other than ENOENT ends the search at once.
FinishTryStopsOnOtherError ==
    /\ pc = "search"
    /\ LET n == SplitNext(dirs) IN
       /\ IsSome(n.item)
       /\ dirs' = n.it
       /\ LET buf == set_exe(exe_buf, <<Unwrap(n.item), <<Slash>>, exec.cmd>>) IN
          /\ exe_buf' = buf
          /\ \E res \in ExecOutcomes :
                /\ attempts' = Append(attempts, ExecAttempt(exec, buf, res))
                /\ \/ /\ res = "ok"
                      /\ pc' = "execed"
                      /\ UNCHANGED <<errno, ret>>
                   \/ /\ res = "ENOENT"
                      /\ errno' = res
                      /\ UNCHANGED <<pc, ret>>
                   \/ /\ res \notin {"ok", "ENOENT"}
                      /\ errno' = res
                      /\ ret' = Some(res)
                      /\ pc' = "staged"
    /\ UNCHANGED <<PATH, cmd, args, env, stage_err, env_at_stage, exec, cap0,
                   ncalls, nsetenv, path_reads, splitVars, waitVars, pollVars, streamVars>>

\* One iteration of the loop: set_exe on the next directory, then exec.
FinishTry ==
    /\ pc = "search"
    /\ LET n == SplitNext(dirs) IN
       /\ IsSome(n.item)
       /\ dirs' = n.it
       /\ LET buf == set_exe(exe_buf, <<Unwrap(n.item), <<Slash>>, exec.cmd>>) IN
          /\ exe_buf' = buf
          /\ \E res \in ExecOutcomes :
                /\ attempts' = Append(attempts, ExecAttempt(exec, buf, res))
                /\ \/ /\ res = "ok"
                      /\ pc' = "execed"
                      /\ UNCHANGED errno
                   \/ /\ res # "ok"
                      /\ errno' = res
                      /\ UNCHANGED pc
    /\ UNCHANGED <<PATH, cmd, args, env, stage_err, env_at_stage, exec, cap0, ret,
                   ncalls, nsetenv, path_reads, splitVars, waitVars, pollVars, streamVars>>

\* The loop has run out of directories: Err(Error::last_os_error()).
FinishExhausted ==
    /\ pc = "search"
    /\ LET n == SplitNext(dirs) IN
       /\ ~IsSome(n.item)
       /\ dirs' = n.it
    /\ ret' = Some(errno)
    /\ pc' = "staged"
    /\ UNCHANGED <<PATH, cmd, args, env, stage_err, env_at_stage, exec, exe_buf, cap0,
                   errno, attempts, ncalls, nsetenv, path_reads, splitVars, waitVars, pollVars, streamVars>>

\* finish() without a search path: set_exe on the command, then exec()?.
FinishDirect ==
    /\ pc = "staged"
    /\ ncalls < MaxFinishCalls
    /\ ~IsSome(exec.search_path)
    /\ ncalls' = ncalls + 1
    /\ LET buf == set_exe(exe_buf, <<exec.cmd>>) IN
       /\ exe_buf' = buf
       /\ \E res \in ExecOutcomes :
             /\ attempts' = <<ExecAttempt(exec, buf, res)>>
             /\ \/ /\ res = "ok"
                   /\ pc' = "execed"
                   /\ ret' = None
                   /\ UNCHANGED errno
                \/ /\ res # "ok"
                   /\ errno' = res
                   /\ ret' = Some(res)
                   /\ UNCHANGED pc
    /\ UNCHANGED <<PATH, cmd, args, env, stage_err, env_at_stage, exec, cap0, dirs,
                   nsetenv, path_reads, splitVars, waitVars, pollVars, streamVars>>

\* Some code of the process changes PATH after the plan was staged.
SetEnvPath ==
    /\ pc \in {"staged", "search"}
    /\ nsetenv < MaxSetEnv
    /\ nsetenv' = nsetenv + 1
    /\ PATH' \in PathChoices \ {PATH}
    /\ UNCHANGED <<cmd, args, env, pc, stage_err, env_at_stage, exec, exe_buf, cap0,
                   dirs, errno, attempts, ret, ncalls, path_reads, splitVars, waitVars, pollVars, streamVars>>

Next ==
    \/ StageExec
    \/ FinishBegin
    \/ FinishTry
    \/ FinishExhausted
    \/ FinishDirect
    \/ SetEnvPath

Spec == InitExec /\ [][Next]_vars

----------------------------------------------------------------------------
(* check_err, waitpid and decode_exit_status: src/posix.rs 21-26, 279-301. *)

\* A buggy check_err: -1 passes for a count.
check_err_below_minus_one(num, e) == IF num < -1 THEN Err(e) ELSE Ok(num)

\* check_err: a negative return is the error in errno (`e`).
check_err(num, e) == IF num < 0 THEN Err(e) ELSE Ok(num)

\* Casts of two's-complement integers.
AsI8(x) == LET m == x % 256 IN IF m >= 128 THEN m - 256 ELSE m
AsU8(x) == x % 256

\* The wait-status macros of libc on Linux; x & 0x7f is x % 128 and x >> 8
\* is x \div 256 for a two's-complement x of either sign.
WIFEXITED(status) == (status % 128) = 0
WEXITSTATUS(status) == (status \div 256) % 256
WIFSIGNALED(status) == AsI8((status % 128) + 1) >= 2
WTERMSIG(status) == status % 128

\* ExitStatus of os_common.
Exited(code) == [tag |-> "Exited", val |-> code]
Signaled(sig) == [tag |-> "Signaled", val |-> sig]
Other(raw) == [tag |-> "Other", val |-> raw]

\* A buggy decoder: the signal is the low byte, core-dump flag included.
decode_exit_status_low_byte(status) ==
    IF WIFEXITED(status) THEN Exited(WEXITSTATUS(status))
    ELSE IF WIFSIGNALED(status) THEN Signaled(AsU8(status))
    ELSE Other(status)

decode_exit_status(status) ==
    IF WIFEXITED(status) THEN Exited(WEXITSTATUS(status))
    ELSE IF WIFSIGNALED(status) THEN Signaled(AsU8(WTERMSIG(status)))
    ELSE Other(status)

RawStatuses == (-MaxNegStatus)..MaxStatus
ChildPid == 7
WaitErrnos == {"ECHILD", "EINTR"}

InitWait ==
    /\ w_pc = "call"
    /\ w_status \in RawStatuses
    /\ w_ret = None
    /\ InitUnusedSplit /\ InitUnusedExec /\ InitUnusedPoll /\ InitUnusedStream

\* waitpid: libc::waitpid returns -1 (error), 0 (WNOHANG and no child has
\* changed state: `status` keeps its initial 0) or the child's pid, having
\* written the child's status word to `status`.
Waitpid ==
    /\ w_pc = "call"
    /\ w_pc' = "done"
    /\ \/ \E e \in WaitErrnos : w_ret' = Some(check_err(-1, e))
       \/ w_ret' = Some(Ok(<<check_err(0, "0").val, decode_exit_status(0)>>))
       \/ w_ret' = Some(Ok(<<check_err(ChildPid, "0").val, decode_exit_status(w_status)>>))
    /\ UNCHANGED <<w_status, splitVars, execVars, pollVars, streamVars>>

NextWait == Waitpid

SpecWait == InitWait /\ [][NextWait]_vars

----------------------------------------------------------------------------
(* poll: src/posix.rs 385-414. *)

(* A Duration or an Instant is [hi, lo, tk]: (hi * 2^31 + lo) milliseconds   *)
(* and tk clock ticks, 0 <= lo <= I32_MAX and 0 <= tk < TicksPerMs, so that  *)
(* times beyond 2^31 - 1 ms are computed without leaving 32-bit integers.    *)
I32_MAX == 2147483647

Dur(hi, lo, tk) == [hi |-> hi, lo |-> lo, tk |-> tk]
Millis(n) == Dur(0, n, 0)

DurAdd(a, b) ==
    LET t   == a.tk + b.tk
        ct  == IF t >= TicksPerMs THEN 1 ELSE 0
        c1  == IF b.lo > I32_MAX - a.lo THEN 1 ELSE 0
        lo1 == IF c1 = 1 THEN b.lo - (I32_MAX - a.lo) - 1 ELSE a.lo + b.lo
        c2  == IF ct = 1 /\ lo1 = I32_MAX THEN 1 ELSE 0
        lo2 == IF c2 = 1 THEN 0 ELSE lo1 + ct
    IN  Dur(a.hi + b.hi + c1 + c2, lo2, t - ct * TicksPerMs)

\* a <= b
DurLe(a, b) ==
    \/ a.hi < b.hi
    \/ a.hi = b.hi /\ a.lo < b.lo
    \/ a.hi = b.hi /\ a.lo = b.lo /\ a.tk <= b.tk

\* a - b, for b <= a
DurSub(a, b) ==
    LET bt == IF a.tk >= b.tk THEN 0 ELSE 1
        d  == (a.lo - b.lo) - bt
        bl == IF d < 0 THEN 1 ELSE 0
    IN  Dur(a.hi - b.hi - bl,
            IF d < 0 THEN (d + I32_MAX) + 1 ELSE d,
            IF bt = 1 THEN (a.tk + TicksPerMs) - b.tk ELSE a.tk - b.tk)

\* A buggy clamp: the clamped case does not set the overflow flag.
ClampMillisNoFlag(t) ==
    IF IsSome(t)
    THEN IF Unwrap(t).hi = 0
         THEN [ms |-> Unwrap(t).lo, overflow |-> FALSE]
         ELSE [ms |-> I32_MAX, overflow |-> FALSE]
    ELSE [ms |-> -1, overflow |-> FALSE]

\* A buggy clamp: `<` for `<=`, so exactly i32::MAX ms counts as too large.
ClampMillisStrict(t) ==
    IF IsSome(t)
    THEN IF Unwrap(t).hi = 0 /\ Unwrap(t).lo < I32_MAX
         THEN [ms |-> Unwrap(t).lo, overflow |-> FALSE]
         ELSE [ms |-> I32_MAX, overflow |-> TRUE]
    ELSE [ms |-> -1, overflow |-> FALSE]

\* (timeout_ms, overflow) of the loop: as_millis() drops the ticks below a
\* millisecond; the milliseconds are <= i32::MAX exactly when hi = 0.
ClampMillis(t) ==
    IF IsSome(t)
    THEN IF Unwrap(t).hi = 0
         THEN [ms |-> Unwrap(t).lo, overflow |-> FALSE]
         ELSE [ms |-> I32_MAX, overflow |-> TRUE]
    ELSE [ms |-> -1, overflow |-> FALSE]

\* Stands for Duration::MAX (u64::MAX seconds), which the limbs cannot hold.
\* No arithmetic is ever done on it: the only operation poll applies to the
\* requested timeout before the loop is Instant + Duration, which rejects it.
DurationMax == Dur(-1, -1, -1)

\* Instant::checked_add: an Instant holds i64 seconds, so adding u64::MAX
\* seconds to any reading of the clock is not representable.
Instant_checked_add(i, d) ==
    IF d = DurationMax THEN None ELSE Some(DurAdd(i, d))

\* A buggy test: `&&` for `||`.
ReturnsNowBoth(cnt, overflow) == cnt # 0 /\ ~overflow

\* `if cnt != 0 || !overflow { return Ok(cnt as usize) }`
ReturnsNow(cnt, overflow) == cnt # 0 \/ ~overflow

TimeoutChoices ==
    {None,
     Some(Millis(0)),
     Some(Dur(0, 0, 1)),
     Some(Millis(3)),
     Some(Millis(I32_MAX)),
     Some(Dur(0, I32_MAX, 1)),
     Some(Dur(1, 0, 0)),
     Some(Dur(1, 1, 1)),
     Some(Dur(2, 3, 0)),
     Some(DurationMax)}

\* How much later than asked a call may return.
Overruns == {Millis(0), Dur(0, 0, 1), Millis(1), Millis(5)}
PollErrnos == {"EINTR", "EINVAL"}

\* What one libc::poll(fds, nfds, timeout_ms) call can do: fail (-1 and an
\* errno) or report ready descriptors at any time, or report 0 once at least
\* timeout_ms milliseconds have passed (never with timeout_ms = -1).
\* `elapsed` is the time from the previous reading of the clock to the next.
SysPoll(n, timeout_ms) ==
    LET early == {Millis(0)} \cup (IF timeout_ms > 0 THEN {Millis(timeout_ms)} ELSE {})
    IN  {[ret |-> -1, errno |-> e, elapsed |-> DurAdd(b, o)] :
            e \in PollErrnos, b \in early, o \in Overruns}
        \cup {[ret |-> k, errno |-> "0", elapsed |-> DurAdd(b, o)] :
                 k \in 1..n, b \in early, o \in Overruns}
        \cup (IF timeout_ms >= 0
              THEN {[ret |-> 0, errno |-> "0", elapsed |-> DurAdd(Millis(timeout_ms), o)] :
                       o \in Overruns}
              ELSE {})

InitPoll ==
    /\ nfds \in 0..MaxFds
    /\ requested \in TimeoutChoices
    /\ now = Millis(0)
    /\ deadline = None
    /\ timeout = None
    /\ p_pc = "idle"
    /\ p_ret = None
    /\ p_log = <<>>
    /\ InitUnusedSplit /\ InitUnusedExec /\ InitUnusedWait /\ InitUnusedStream

\* poll is entered: the deadline is computed from the clock.  The `+` of
\* Instant and Duration panics when checked_add gives None.
PollEnter ==
    /\ p_pc = "idle"
    /\ \/ /\ IsSome(requested)
          /\ IsSome(Instant_checked_add(now, Unwrap(requested)))
          /\ deadline' = Some(Unwrap(Instant_checked_add(now, Unwrap(requested))))
          /\ timeout' = requested
          /\ p_pc' = "loop"
       \/ /\ IsSome(requested)
          /\ ~IsSome(Instant_checked_add(now, Unwrap(requested)))
          /\ p_pc' = "panicked"
          /\ UNCHANGED <<deadline, timeout>>
       \/ /\ ~IsSome(requested)
          /\ deadline' = None
          /\ timeout' = requested
          /\ p_pc' = "loop"
    /\ UNCHANGED <<nfds, requested, now, p_ret, p_log, splitVars, execVars, waitVars, streamVars>>

\* One iteration of the loop, around one libc::poll call.
PollIterate ==
    /\ p_pc = "loop"
    /\ LET c == ClampMillis(timeout) IN
       \E r \in SysPoll(nfds, c.ms) :
          LET cnt == check_err(r.ret, r.errno)
              t   == DurAdd(now, r.elapsed)
          IN  /\ now' = t
              /\ p_log' = Append(p_log, [remaining |-> timeout,
                                         timeout_ms |-> c.ms, overflow |-> c.overflow,
                                         ret |-> r.ret, errno |-> r.errno, at |-> t])
              /\ \/ /\ ~cnt.ok
                    /\ p_ret' = Some(cnt)
                    /\ p_pc' = "done"
                    /\ UNCHANGED timeout
                 \/ /\ cnt.ok
                    /\ ReturnsNow(cnt.val, c.overflow)
                    /\ p_ret' = Some(Ok(cnt.val))
                    /\ p_pc' = "done"
                    /\ UNCHANGED timeout
                 \/ /\ cnt.ok
                    /\ ~ReturnsNow(cnt.val, c.overflow)
                    /\ DurLe(Unwrap(deadline), t)
                    /\ p_ret' = Some(Ok(0))
                    /\ p_pc' = "done"
                    /\ UNCHANGED timeout
                 \/ /\ cnt.ok
                    /\ ~ReturnsNow(cnt.val, c.overflow)
                    /\ ~DurLe(Unwrap(deadline), t)
                    /\ timeout' = Some(DurSub(Unwrap(deadline), t))
                    /\ UNCHANGED <<p_ret, p_pc>>
    /\ UNCHANGED <<nfds, requested, deadline, splitVars, execVars, waitVars, streamVars>>

NextPoll == PollEnter \/ PollIterate

SpecPoll == InitPoll /\ [][NextPoll]_vars

\* poll runs on the calling thread: once called it computes its deadline, and
\* every libc::poll call it makes comes back (at the latest when the timeout
\* it was given runs out), so each step that can be taken is taken.
SpecPollFair ==
    InitPoll /\ [][NextPoll]_vars /\ WF_vars(PollEnter) /\ WF_vars(PollIterate)

----------------------------------------------------------------------------
(* make_standard_stream: src/posix.rs 328-335. *)

\* An Rc<File> allocation: the descriptor the File owns, the strong count, and
\* `live', the handles that exist and will be dropped some day (a forgotten
\* handle is counted in strong but is not live).  `clones' is history: the
\* clones callers have made.
StandardStreams == {0, 1, 2}

Rc_new(fd) == [fd |-> fd, strong |-> 1, live |-> 1, clones |-> 0]
Rc_clone(rc) == [rc EXCEPT !.strong = @ + 1, !.live = @ + 1]
Rc_drop(rc) == [rc EXCEPT !.strong = @ - 1, !.live = @ - 1]
\* mem::forget takes the handle and never runs its destructor.
mem_forget(rc) == [rc EXCEPT !.live = @ - 1]

make_standard_stream_no_leak(which) == Ok(Rc_new(which))

make_standard_stream(which) ==
    LET stream == Rc_new(which) IN
    Ok(mem_forget(Rc_clone(stream)))

InitStream ==
    /\ wrappers = <<>>
    /\ fd_open = [fd \in StandardStreams |-> TRUE]
    /\ InitUnusedSplit /\ InitUnusedExec /\ InitUnusedWait /\ InitUnusedPoll

MakeStandardStream ==
    /\ Len(wrappers) < MaxWrappers
    /\ \E which \in StandardStreams :
           wrappers' = Append(wrappers, make_standard_stream(which).val)
    /\ UNCHANGED <<fd_open, splitVars, execVars, waitVars, pollVars>>

\* A caller clones a handle it holds.
CloneHandle ==
    /\ \E i \in 1..Len(wrappers) :
           /\ wrappers[i].live > 0
           /\ wrappers[i].clones < MaxClones
           /\ wrappers' = [wrappers EXCEPT ![i] =
                              [Rc_clone(@) EXCEPT !.clones = @ + 1]]
    /\ UNCHANGED <<fd_open, splitVars, execVars, waitVars, pollVars>>

\* A caller drops a handle it holds; the last strong reference drops the
\* File, which closes its descriptor.
DropHandle ==
    /\ \E i \in 1..Len(wrappers) :
           /\ wrappers[i].live > 0
           /\ wrappers' = [wrappers EXCEPT ![i] = Rc_drop(@)]
           /\ fd_open' = IF wrappers'[i].strong = 0
                          THEN [fd_open EXCEPT ![wrappers[i].fd] = FALSE]
                          ELSE fd_open
    /\ UNCHANGED <<splitVars, execVars, waitVars, pollVars>>

NextStream == MakeStandardStream \/ CloneHandle \/ DropHandle

SpecStream == InitStream /\ [][NextStream]_vars

----------------------------------------------------------------------------
(* What the splitter is required to produce, stated without it. *)

\* The maximal runs of non-colon bytes of `bytes`, as <<first, last>> (1-based):
\* a run starts at a non-colon byte that follows a colon or nothing, and ends
\* at the first byte from there on that is followed by a colon or by nothing.
RunSet(bytes) ==
    LET n == Len(bytes)
        starts == {i \in 1..n : bytes[i] # Colon /\ (i = 1 \/ bytes[i - 1] = Colon)}
    IN  {<<i, CHOOSE j \in i..n :
                  /\ j = n \/ bytes[j + 1] = Colon
                  /\ \A k \in i..j : bytes[k] # Colon>> : i \in starts}

RECURSIVE RunsInOrder(_, _)
RunsInOrder(bytes, runs) ==
    IF runs = {} THEN <<>>
    ELSE LET r == CHOOSE x \in runs : \A y \in runs : x[1] <= y[1] IN
         <<SubSeq(bytes, r[1], r[2])>> \o RunsInOrder(bytes, runs \ {r})

MaximalRuns(bytes) == RunsInOrder(bytes, RunSet(bytes))

\* C5: once the iteration has ended, the pieces returned are exactly the
\* maximal non-empty runs of non-colon bytes of the input, left to right;
\* before that they are a prefix of them.
C5_SplitYieldsMaximalRuns ==
    /\ sp_out = SubSeq(MaximalRuns(sp.path), 1, Len(sp_out))
    /\ sp_done => sp_out = MaximalRuns(sp.path)

\* A trailing colon and a doubled colon were both iterated over to the end.
C5_Witness ==
    /\ sp_done
    /\ Len(sp_out) = 2
    /\ Len(sp.path) >= 4
    /\ sp.path[Len(sp.path)] = Colon
    /\ \E i \in 1..(Len(sp.path) - 2) : sp.path[i] = Colon /\ sp.path[i + 1] = Colon

\* C6: a path built from non-empty colon-free segments joined with colons,
\* with any extra leading, trailing or doubled colons, splits into exactly
\* those segments.
C6_DecorationInvariant ==
    sp_done => sp_out = sp_segs

\* Two segments with a leading colon, a doubled colon and a trailing colon.
C6_Witness ==
    /\ sp_done
    /\ Len(sp_segs) = 2
    /\ \A i \in 1..3 : sp_pads[i] >= 1
    /\ sp_out = sp_segs

----------------------------------------------------------------------------
(* Staging and finish(): what is required of them. *)

Staged == pc \in {"staged", "search", "execed"}

\* The candidates of a PATH search, from the plan's search path and command:
\* "<segment>/<command>\0" for each maximal run of non-colon bytes, in order.
Candidates(plan) ==
    LET segs == MaximalRuns(Unwrap(plan.search_path)) IN
    [i \in 1..Len(segs) |-> segs[i] \o <<Slash>> \o plan.cmd \o <<NUL>>]

\* The length of the longest segment of a search path, 0 when it has none.
LongestRun(bytes) ==
    IF RunSet(bytes) = {} THEN 0
    ELSE LET r == CHOOSE x \in RunSet(bytes) :
                      \A y \in RunSet(bytes) : y[2] - y[1] <= x[2] - x[1]
         IN r[2] - r[1] + 1

\* C1: during and after a PATH search the exec attempts made so far are the
\* candidates "<segment>/<command>\0" in path order, from the first on; an
\* attempt that succeeded is the last one made, no later segment is tried
\* after it, and all attempts before it failed.
C1_SearchInPathOrder ==
    (Staged /\ IsSome(exec.search_path)) =>
        /\ Len(attempts) <= Len(Candidates(exec))
        /\ \A i \in 1..Len(attempts) :
              /\ attempts[i].buf = Candidates(exec)[i]
              /\ attempts[i].res = "ok" => (i = Len(attempts) /\ pc = "execed")
        /\ pc = "execed" => attempts[Len(attempts)].res = "ok"

\* The second of three segments was exec'd; the third was never tried.
C1_Witness ==
    /\ pc = "execed"
    /\ IsSome(exec.search_path)
    /\ Len(Candidates(exec)) = 3
    /\ Len(attempts) = 2
    /\ attempts[1].res # "ok"
    /\ attempts[2].res = "ok"

\* C2: when finish() returns from a PATH search (every attempt failed), it
\* has made exactly one attempt per non-empty segment, in order, whatever the
\* failures were, and the error returned is that of the last segment's attempt.
C2_AllFailTriesEverySegment ==
    (pc = "staged" /\ IsSome(ret) /\ IsSome(exec.search_path)) =>
        /\ Len(attempts) = Len(Candidates(exec))
        /\ \A i \in 1..Len(attempts) :
              /\ attempts[i].buf = Candidates(exec)[i]
              /\ attempts[i].res \in ExecErrnos
        /\ Len(attempts) > 0 => Unwrap(ret) = attempts[Len(attempts)].res

\* Three segments, permission denied on the first, not found on the last.
C2_Witness ==
    /\ pc = "staged"
    /\ IsSome(ret)
    /\ IsSome(exec.search_path)
    /\ Len(attempts) = 3
    /\ attempts[1].res = "EACCES"
    /\ attempts[3].res = "ENOENT"
    /\ ret = Some("ENOENT")

HasNulInput ==
    \/ Contains(cmd, NUL)
    \/ \E i \in 1..Len(args) : Contains(args[i], NUL)
    \/ IsSome(env) /\ \E i \in 1..Len(Unwrap(env)) : Contains(Unwrap(env)[i], NUL)

\* C3: when the command, an argument or an environment entry holds a NUL
\* byte, stage_exec returns EINVAL and no callable, so no exec is attempted.
C3_NulRejectedAtStaging ==
    (pc # "start" /\ HasNulInput) =>
        /\ pc = "failed"
        /\ stage_err = Some("EINVAL")
        /\ attempts = <<>>

\* C7: the capacity reserved at construction is at least L + 1 + C + 1
\* (C + 1 without a search path), every candidate written fits in it, and
\* the capacity is still the reserved one after any number of finish() calls.
C7_ScratchNeverReallocates ==
    Staged =>
        /\ cap0 >= Len(exec.cmd) + 1
                     + (IF IsSome(exec.search_path)
                        THEN 1 + LongestRun(Unwrap(exec.search_path)) ELSE 0)
        /\ exe_buf.cap = cap0
        /\ Len(exe_buf.data) <= cap0
        /\ \A i \in 1..Len(attempts) : Len(attempts[i].buf) <= cap0

\* The second finish() call has written a shorter candidate after the
\* longest one filled the buffer to its capacity.
C7_Witness ==
    /\ Staged
    /\ ncalls = 2
    /\ IsSome(exec.search_path)
    /\ Len(attempts) = 2
    /\ Len(attempts[1].buf) = cap0
    /\ Len(attempts[2].buf) < cap0
    /\ exe_buf.cap = cap0

\* C8: the plan has a search path exactly when the command holds no '/' and
\* PATH was set to a non-empty value when stage_exec ran; the search path is
\* then that value.
C8_SearchPathResolution ==
    Staged =>
        LET searched == /\ ~Contains(cmd, Slash)
                        /\ IsSome(env_at_stage)
                        /\ Unwrap(env_at_stage) # <<>>
        IN  /\ IsSome(exec.search_path) <=> searched
            /\ searched => exec.search_path = env_at_stage

\* A bare command staged under an empty PATH was exec'd directly.
C8_Witness ==
    /\ Staged
    /\ ~Contains(cmd, Slash)
    /\ env_at_stage = Some(<<>>)
    /\ exec.search_path = None
    /\ Len(attempts) = 1

\* C9: without a search path a finish() call makes exactly one exec attempt,
\* on the buffer "<command>\0", and returns that attempt's error if it fails.
C9_DirectExecOnce ==
    (Staged /\ ~IsSome(exec.search_path) /\ ncalls > 0) =>
        /\ Len(attempts) = 1
        /\ attempts[1].buf = exec.cmd \o <<NUL>>
        /\ pc = "staged" => (attempts[1].res \in ExecErrnos
                             /\ ret = Some(attempts[1].res))
        /\ pc = "execed" => attempts[1].res = "ok"

\* The second direct finish() call failed with permission denied.
C9_Witness ==
    /\ pc = "staged"
    /\ ~IsSome(exec.search_path)
    /\ ncalls = 2
    /\ Len(attempts) = 1
    /\ ret = Some("EACCES")

----------------------------------------------------------------------------
(* waitpid and poll: what is required of them. *)

\* C10: a raw status encoding normal exit (low seven bits 0) with code c in
\* bits 8-15 decodes to Exited(c), e.g. 0 to Exited(0) and 42 * 256 to
\* Exited(42); one encoding termination by signal s (low seven bits s in
\* 1..126) decodes to Signaled(s), e.g. 9 to Signaled(9); every other raw
\* status decodes to Other with the integer unchanged.
C10_DecodeExitStatus ==
    (w_pc = "done" /\ Unwrap(w_ret).ok /\ Unwrap(w_ret).val[1] = ChildPid) =>
        LET d == Unwrap(w_ret).val[2]
            low7 == w_status % 128
        IN  /\ low7 = 0 => d = Exited((w_status \div 256) % 256)
            /\ low7 \in 1..126 => d = Signaled(low7)
            /\ low7 = 127 => d = Other(w_status)
            /\ w_status = 0 => d = Exited(0)
            /\ w_status = 42 * 256 => d = Exited(42)
            /\ w_status = 9 => d = Signaled(9)
            /\ w_status = 9 + 128 => d = Signaled(9)

\* The status of a child stopped by signal 19 (0x137f) is handed on as Other.
C10_Witness ==
    /\ w_pc = "done"
    /\ w_status = 19 * 256 + 127
    /\ w_ret = Some(Ok(<<ChildPid, Other(19 * 256 + 127)>>))

OverMax(d) == d.hi >= 1

----------------------------------------------------------------------------
(* make_standard_stream: what is required of it. *)

\* C11: whatever clones and drops callers make of a returned handle, the
\* strong count of its wrapper stays at least 1, so the File is never dropped
\* and no standard descriptor is ever closed.
C11_StandardStreamNeverClosed ==
    /\ \A i \in 1..Len(wrappers) : wrappers[i].strong >= 1
    /\ \A i \in 1..Len(wrappers) : fd_open[wrappers[i].fd]

\* A caller cloned the handle and then dropped every handle there was.
C11_Witness ==
    \E i \in 1..Len(wrappers) :
        /\ wrappers[i].clones > 0
        /\ wrappers[i].live = 0
        /\ wrappers[i].strong = 1

----------------------------------------------------------------------------
(* poll: the loop around libc::poll. *)

\* The timeout poll held when it made call i exceeded 2^31 - 1 ms.
Clamped(i) ==
    IsSome(p_log[i].remaining) /\ OverMax(Unwrap(p_log[i].remaining))

\* C12: a libc::poll call that reports a nonzero count, or that was made with
\* a timeout that needed no clamping, is the last one: poll has returned
\* right after it (with that count when the call did not fail), so a first
\* call of that kind is the only call.  Without a timeout every call is
\* passed -1 and there is never a second call.
C12_OneCallUnlessClampedZero ==
    /\ \A i \in 1..Len(p_log) :
           (p_log[i].ret # 0 \/ ~Clamped(i)) =>
               /\ i = Len(p_log)
               /\ p_pc = "done"
               /\ p_log[i].ret >= 0 => p_ret = Some(Ok(p_log[i].ret))
    /\ (p_log # <<>> /\ (p_log[1].ret # 0 \/ ~Clamped(1))) => Len(p_log) = 1
    /\ ~IsSome(requested) =>
           /\ Len(p_log) <= 1
           /\ \A i \in 1..Len(p_log) : p_log[i].timeout_ms = -1

\* A clamped call woke with nothing ready, the next one, clamped as well,
\* reported a ready descriptor, and poll returned it.
C12_Witness ==
    /\ p_pc = "done"
    /\ Len(p_log) = 2
    /\ Clamped(1) /\ p_log[1].ret = 0
    /\ Clamped(2) /\ p_log[2].ret = 1
    /\ p_ret = Some(Ok(1))

----------------------------------------------------------------------------
(* Staging and finish(): the exec calls. *)

\* The C strings a CVec::new of `slice` must hold: each string's bytes and
\* one NUL, in input order.
CStrings(slice) == [j \in 1..Len(slice) |-> slice[j] \o <<NUL>>]

\* C13: every exec attempt is an execve passing the environment vector that
\* was staged when an environment list was supplied to stage_exec (an empty
\* list included), and an execv passing no environment otherwise.
C13_ExecVariantFollowsEnv ==
    \A i \in 1..Len(attempts) :
        IF IsSome(env)
        THEN /\ attempts[i].call = "execve"
             /\ IsSome(attempts[i].envp)
             /\ Unwrap(attempts[i].envp) = Unwrap(exec.envvec)
             /\ Unwrap(attempts[i].envp).strings = CStrings(Unwrap(env))
        ELSE /\ attempts[i].call = "execv"
             /\ attempts[i].envp = None

\* Two attempts of one search, both execve with the staged one-entry
\* environment.
C13_Witness ==
    /\ IsSome(env) /\ Len(Unwrap(env)) = 1
    /\ Len(attempts) = 2
    /\ attempts[1].call = "execve" /\ attempts[2].call = "execve"

\* What a pointer table built from the n strings of `slice` must be: n + 1
\* entries, the last one null, entry i non-null and referring to a buffer of
\* the vector that holds the bytes of string i followed by a single NUL.
WellFormedCVec(cvec, slice) ==
    LET n == Len(slice) IN
    /\ Len(cvec.ptrs) = n + 1
    /\ cvec.ptrs[n + 1] = NullPtr
    /\ \A i \in 1..n :
           /\ cvec.ptrs[i] # NullPtr
           /\ cvec.ptrs[i] \in DOMAIN cvec.strings
           /\ cvec.strings[cvec.ptrs[i]] = slice[i] \o <<NUL>>
           /\ ~Contains(slice[i], NUL)

\* C14: the vectors staged from NUL-free argument and environment lists are
\* null-terminated pointer tables over the NUL-terminated strings, in input
\* order, and they are what every exec attempt is handed.
C14_PointerTableShape ==
    Staged =>
        /\ WellFormedCVec(exec.argvec, args)
        /\ IsSome(env) => WellFormedCVec(Unwrap(exec.envvec), Unwrap(env))
        /\ \A i \in 1..Len(attempts) : attempts[i].argv = exec.argvec

\* Two arguments and a one-entry environment were staged and handed to exec.
C14_Witness ==
    /\ Staged
    /\ Len(args) = 2 /\ Len(exec.argvec.ptrs) = 3
    /\ IsSome(env) /\ Len(Unwrap(exec.envvec).ptrs) = 2
    /\ attempts # <<>>

\* The exec candidates that follow from the value PATH had when stage_exec
\* ran: one per non-empty segment for a command without '/' and a non-empty
\* PATH, the command itself otherwise.
StagedCandidates ==
    IF ~Contains(cmd, Slash) /\ IsSome(env_at_stage) /\ Unwrap(env_at_stage) # <<>>
    THEN LET segs == MaximalRuns(Unwrap(env_at_stage)) IN
         [i \in 1..Len(segs) |-> segs[i] \o <<Slash>> \o cmd \o <<NUL>>]
    ELSE <<cmd \o <<NUL>>>>

AttemptsFollowStagedPath ==
    /\ Len(attempts) <= Len(StagedCandidates)
    /\ \A i \in 1..Len(attempts) : attempts[i].buf = StagedCandidates[i]

\* C15 as claimed: once staged, PATH has been read exactly once, and whatever
\* PATH has been changed to since, the attempts of finish() are the
\* candidates of the PATH value staging saw, in order.
C15_PathReadExactlyOnce ==
    Staged =>
        /\ path_reads = 1
        /\ AttemptsFollowStagedPath

\* C15 as amended: PATH is read at staging only, once for a command without
\* '/' and not at all for a command with one (nor when staging fails on a
\* NUL byte); whatever PATH has been changed to since, the attempts of
\* finish() are the candidates of the PATH value staging saw, in order.
C15_PathReadOnlyAtStaging ==
    /\ path_reads = (IF Staged /\ ~Contains(cmd, Slash) THEN 1 ELSE 0)
    /\ Staged => AttemptsFollowStagedPath

\* PATH was "aa:a" at staging and has been changed to a value with other
\* segments; the search still made its two attempts under aa and a.
C15_Witness ==
    /\ pc = "search"
    /\ nsetenv = 1
    /\ env_at_stage = Some(<<"a", "a", Colon, "a">>)
    /\ PATH = Some(<<"a", Colon, Slash, "a", "a", Colon, "a">>)
    /\ path_reads = 1
    /\ Len(attempts) = 2

\* C16: when finish() has returned an error, that call made at least one
\* exec attempt and the error is the one of its last attempt; this is claimed
\* for every search path, one made of colons alone included.
C16_ErrorIsOfLastAttempt ==
    (pc = "staged" /\ IsSome(ret)) =>
        /\ Len(attempts) >= 1
        /\ Unwrap(ret) = attempts[Len(attempts)].res

\* The bytes `b` are exactly: the segment, one '/', the command, one NUL.
IsCandidateOf(b, seg, c) ==
    /\ Len(b) = Len(seg) + 1 + Len(c) + 1
    /\ SubSeq(b, 1, Len(seg)) = seg
    /\ b[Len(seg) + 1] = Slash
    /\ SubSeq(b, Len(seg) + 2, Len(seg) + 1 + Len(c)) = c
    /\ b[Len(b)] = NUL

\* C17: the scratch buffer handed to each exec attempt of a PATH search is the
\* attempt's segment, '/', the command and one NUL and nothing else, also
\* when an earlier candidate was longer; between attempts the buffer still
\* holds the candidate of the latest attempt.
C17_ScratchHoldsOneCandidate ==
    (Staged /\ IsSome(exec.search_path)) =>
        /\ \A i \in 1..Len(attempts) :
              IsCandidateOf(attempts[i].buf,
                            MaximalRuns(Unwrap(exec.search_path))[i], cmd)
        /\ attempts # <<>> => exe_buf.data = attempts[Len(attempts)].buf

\* The second candidate is shorter than the first one was.
C17_Witness ==
    /\ pc = "search"
    /\ IsSome(exec.search_path)
    /\ Len(attempts) = 2
    /\ Len(attempts[2].buf) < Len(attempts[1].buf)
    /\ exe_buf.data = attempts[2].buf

----------------------------------------------------------------------------
(* poll: errors, the clamp and the deadline. *)

\* C18: a libc::poll call that fails, on the first iteration or on a later
\* one, is the last call made: poll has returned the error of that call.
C18_SyscallErrorReturnedAtOnce ==
    \A i \in 1..Len(p_log) :
        p_log[i].ret < 0 =>
            /\ i = Len(p_log)
            /\ p_pc = "done"
            /\ p_ret = Some(Err(p_log[i].errno))

\* A clamped call woke with nothing ready and the call after it failed.
C18_Witness ==
    /\ Len(p_log) = 2
    /\ Clamped(1) /\ p_log[1].ret = 0
    /\ p_log[2].ret = -1 /\ p_log[2].errno = "EINTR"
    /\ p_ret = Some(Err("EINTR"))
    /\ p_pc = "done"

\* The whole milliseconds of a duration.
WholeMs(d) == Dur(d.hi, d.lo, 0)

\* The time that remained when call i was made: the requested timeout at the
\* first call, the deadline less the clock reading after the previous call
\* at a later one.
RemainingAt(i) ==
    IF i = 1 THEN requested
    ELSE Some(DurSub(Unwrap(deadline), p_log[i - 1].at))

\* C20: every libc::poll call is passed -1 when there is no timeout, and
\* otherwise the whole milliseconds that remain, or 2^31 - 1 when they are
\* more than that; the overflow flag is set exactly in the latter case, so
\* exactly 2^31 - 1 ms remaining is passed as it is and not flagged.
C20_TimeoutMsClamped ==
    \A i \in 1..Len(p_log) :
        LET e == p_log[i] IN
        /\ e.remaining = RemainingAt(i)
        /\ IF ~IsSome(e.remaining)
           THEN e.timeout_ms = -1 /\ ~e.overflow
           ELSE LET ms == WholeMs(Unwrap(e.remaining)) IN
                /\ e.timeout_ms \in 0..I32_MAX
                /\ e.overflow <=> ~DurLe(ms, Millis(I32_MAX))
                /\ DurLe(ms, Millis(I32_MAX)) => Millis(e.timeout_ms) = ms
                /\ ~DurLe(ms, Millis(I32_MAX)) => e.timeout_ms = I32_MAX

\* After a clamped call exactly 2^31 - 1 ms and a tick remained: the second
\* call was passed 2^31 - 1 and was not flagged.
C20_Witness ==
    /\ Len(p_log) >= 2
    /\ p_log[1].overflow /\ p_log[1].timeout_ms = I32_MAX
    /\ WholeMs(Unwrap(p_log[2].remaining)) = Millis(I32_MAX)
    /\ p_log[2].timeout_ms = I32_MAX
    /\ ~p_log[2].overflow

\* C19: called with a timeout, poll returns.  Stated on the runs so far: poll
\* never stops short of returning (while it has not returned, its next step
\* can be taken); every call after the first was made because the call
\* before it was clamped and woke with nothing ready, with at least 2^31 - 1
\* ms less remaining to the one deadline than that call had; and poll is not
\* left in its loop after a call whose timeout fitted or after the deadline.
C19_PollEventuallyReturns ==
    IsSome(requested) =>
        /\ p_pc # "done" => ENABLED NextPoll
        /\ \A i \in 2..Len(p_log) :
              /\ Clamped(i - 1) /\ p_log[i - 1].ret = 0
              /\ DurLe(DurAdd(Unwrap(p_log[i].remaining), Millis(I32_MAX)),
                       Unwrap(p_log[i - 1].remaining))
        /\ (p_pc = "loop" /\ p_log # <<>>) =>
              /\ Clamped(Len(p_log))
              /\ ~DurLe(Unwrap(deadline), now)

\* With a timeout that can be added to the clock, poll does return.
PollReturnsUnlessPanicked == <>(p_pc \in {"done", "panicked"})


====
